---- MODULE Spec2Model ----
(***************************************************************************)
(* Unified recipe extraction pipeline (agent/tools/unified_extraction.py). *)
(*                                                                         *)
(* Texts (URLs, error messages, page contents) are sequences of string     *)
(* tokens; the empty text is <<>>.  "s in text" is token membership after  *)
(* lower-casing where the code lower-cases.  An Optional[X] value is a     *)
(* sequence of length 0 (None) or 1 (the value).  Confidences are integer  *)
(* hundredths (0.6 is 60).                                                 *)
(***************************************************************************)
EXTENDS Integers, Sequences, FiniteSets, TLC

None == <<>>

Some(x) == <<x>>

IsNone(o) == Len(o) = 0

Val(o) == o[1]

\* str.lower() on one token
Lower(tok) ==
    CASE tok = "Instagram.COM" -> "instagram.com"
      [] tok = "WWW." -> "www."
      [] OTHER -> tok

\* `needle in text` on the token level
Contains(text, needle) == \E i \in DOMAIN text : text[i] = needle

\* `needle in text.lower()`
ContainsLower(text, needle) == \E i \in DOMAIN text : Lower(text[i]) = needle

----------------------------------------------------------------------------
(* Bounds of the model *)

\* number of top-level calls in one behaviour
MaxCalls == 2

(* Program constants *)

MAX_DEPTH_LIMIT == 1

\* 0.6
FOLLOW_UP_CONFIDENCE_THRESHOLD == 60

----------------------------------------------------------------------------
(* Inputs *)

U_blog == <<"https://", "example.com", "/recipes/lasagna">>

U_insta == <<"https://", "WWW.", "Instagram.COM", "/p/ABC123/">>

U_yt == <<"https://", "youtu.be", "/xyz">>

U_tiktok == <<"https://", "www.", "tiktok.com", "/@chef/video/1">>

U_http == <<"http://", "example.com", "/old">>

U_share == <<"https://", "example.com", "/share?u=", "instagram.com", "/p/ABC123/">>

EmptyText == <<>>

\* URLs handed to extract_and_process_recipe
InputUrls == {U_blog, U_insta, U_yt, U_tiktok, U_http, U_share}

\* values the oracle may put in follow_up_url (Optional[str])
FollowUpUrls == {None, Some(EmptyText), Some(U_blog), Some(U_yt)}

\* values of follow_up_confidence (ge=0.0, le=1.0)
FollowUpConfidences == {0, 59, 60, 100}

\* str(e) of an exception raised by a collaborator
Msgs == {EmptyText, <<"connection reset">>, <<"403">>, <<"blocked">>}

\* text an extractor can return
PageTexts == {EmptyText, <<"2 cups flour", "1. mix">>}

FullRecipe == [title |-> <<"Lasagna">>, ingredients |-> <<"pasta">>, steps |-> <<"bake">>]

PartialRecipe == [title |-> <<"Lasagna">>, ingredients |-> <<"pasta">>, steps |-> <<>>]

----------------------------------------------------------------------------
(* Platform detection *)

is_instagram_url(url) == ContainsLower(url, "instagram.com")

is_youtube_url(url) == ContainsLower(url, "youtube.com") \/ ContainsLower(url, "youtu.be")

is_tiktok_url(url) == ContainsLower(url, "tiktok.com")

\* the branch of the if/elif chain of _extract_content taken for url
Family(url) ==
    IF is_instagram_url(url) THEN "instagram"
    ELSE IF is_youtube_url(url) THEN "youtube"
    ELSE IF is_tiktok_url(url) THEN "tiktok"
    ELSE "generic"

----------------------------------------------------------------------------
(* Extractors: the outcome of one extractor call is a record               *)
(* [kind, content, title, msg, status]; kind "ok" is a returned            *)
(* (content, title) pair, any other kind is the class of the exception     *)
(* raised, msg its str(e) and status the HTTP status of an HTTPError.      *)

Returned(content, title) ==
    [kind |-> "ok", content |-> content, title |-> title, msg |-> EmptyText, status |-> ""]

Raised(kind, msg) ==
    [kind |-> kind, content |-> EmptyText, title |-> EmptyText, msg |-> msg, status |-> ""]

RaisedHTTPError(status) ==
    [kind |-> "HTTPError", content |-> EmptyText, title |-> EmptyText,
     msg |-> <<status, " Client Error">>, status |-> status]

\* a fetched document: its visible text and its <title> element, if any
Htmls == [text : PageTexts, title : {None, Some(EmptyText), Some(<<"Lasagna page">>)}]

\* url.startswith('https://')
StartsWithHttps(url) == Len(url) > 0 /\ url[1] = "https://"

FetchReturned(h) == [kind |-> "ok", html |-> h, msg |-> EmptyText, status |-> ""]

FetchRaised(kind, msg, status) ==
    [kind |-> kind, html |-> [text |-> EmptyText, title |-> None], msg |-> msg, status |-> status]

\* fetch_html without the scheme test
fetch_html_NoSchemeCheck(url) ==
    {FetchReturned(h) : h \in Htmls}
    \cup {FetchRaised("Timeout", m, "") : m \in Msgs}
    \cup {FetchRaised("ConnectionError", m, "") : m \in Msgs}
    \cup {FetchRaised("HTTPError", <<st, " Client Error">>, st) : st \in {"404", "503"}}
    \cup {FetchRaised("RequestException", m, "") : m \in Msgs}

\* the outcomes of fetch_html(url): the markup, or the exception it ends with
fetch_html(url) ==
    IF ~StartsWithHttps(url)
    THEN {FetchRaised("ValueError", <<"URL must start with 'https://'">>, "")}
    ELSE {FetchReturned(h) : h \in Htmls}
         \cup {FetchRaised("Timeout", m, "") : m \in Msgs}
         \cup {FetchRaised("ConnectionError", m, "") : m \in Msgs}
         \cup {FetchRaised("HTTPError", <<st, " Client Error">>, st) : st \in {"404", "503"}}
         \cup {FetchRaised("RequestException", m, "") : m \in Msgs}

extract_text_from_html(html) == html.text

extract_html_title(html) ==
    IF IsNone(html.title) THEN <<"Web Page">> ELSE Val(html.title)

\* generic branch of _extract_content once fetch_html ended with f: text
\* and title of the markup (the parser may reject the markup with an
\* exception of its own), or the exception of the fetch
GenericEnds(f) ==
    IF f.kind = "ok"
    THEN {Returned(extract_text_from_html(f.html), extract_html_title(f.html)),
          Raised("Exception", <<"markup rejected">>)}
    ELSE IF f.kind = "HTTPError" THEN {RaisedHTTPError(f.status)}
    ELSE {Raised(f.kind, f.msg)}

GenericOutcomes(url) == UNION {GenericEnds(f) : f \in fetch_html(url)}

\* extract_instagram_with_html once fetch_html ended with f: the first
\* non-empty meta tag, or an Exception
MetaTags(f) ==
    IF f.kind = "ok"
    THEN (IF f.html.text # EmptyText
          THEN Returned(f.html.text, f.html.text)
          ELSE Raised("Exception", <<"HTML extraction failed: ", "No content found in HTML meta tags">>))
    ELSE IF f.kind \in {"Timeout", "ConnectionError", "HTTPError", "RequestException"}
    THEN Raised("Exception", <<"Failed to fetch Instagram HTML: ">> \o f.msg)
    ELSE Raised("Exception", <<"HTML extraction failed: ">> \o f.msg)

extract_instagram_with_html(url) == {MetaTags(f) : f \in fetch_html(url)}

\* extract_instagram_with_instaloader: a post, or the exception it ends with
extract_instagram_with_instaloader(url) ==
    {Returned(<<"Caption: ", "2 cups flour">>, <<"Instagram Post">>),
     Returned(<<"No text content found">>, <<"Instagram Post">>),
     Raised("ImportError", <<"instaloader is not installed. Install it with: pip install instaloader">>),
     Raised("ValueError", <<"Instagram post not found: ">> \o url),
     Raised("Exception", <<"401">>)}

\* extract_text_from_instagram listing the fallback's failure first
extract_text_from_instagram_Swapped(primary, fallback) ==
    IF primary.kind = "ok" THEN primary
    ELSE IF fallback.kind = "ok" THEN fallback
    ELSE Raised("ValueError",
                <<"Failed to extract Instagram content using all available methods:">>
                \o <<"instaloader: ">> \o fallback.msg
                \o <<"HTML meta tags: ">> \o primary.msg
                \o <<"Possible solutions:">>)

\* extract_text_from_instagram for a given outcome of each method
extract_text_from_instagram(primary, fallback) ==
    IF primary.kind = "ok" THEN primary
    ELSE IF fallback.kind = "ok" THEN fallback
    ELSE Raised("ValueError",
                <<"Failed to extract Instagram content using all available methods:">>
                \o <<"HTML meta tags: ">> \o primary.msg
                \o <<"instaloader: ">> \o fallback.msg
                \o <<"Possible solutions:">>)

InstagramOutcomes(url) ==
    {extract_text_from_instagram(p, f) :
        p \in extract_instagram_with_html(url), f \in extract_instagram_with_instaloader(url)}

\* extract_text_from_youtube / extract_text_from_tiktok (both through yt-dlp)
YtDlpOutcomes(label, default_title) ==
    {Returned(<<"Title: ", "Lasagna">>, <<"Lasagna">>),
     Returned(<<"No text content found">>, default_title),
     Raised("ImportError", <<"yt-dlp is not installed. Install it with: pip install yt-dlp">>)}
    \cup {Raised("Exception", <<label>> \o m) : m \in Msgs}

extract_text_from_youtube(url) ==
    YtDlpOutcomes("Failed to extract YouTube video info: ", <<"YouTube Video">>)

extract_text_from_tiktok(url) ==
    YtDlpOutcomes("Failed to extract TikTok video info: ", <<"TikTok Video">>)

\* what the extractor chosen for url can return or raise
ExtractorOutcomes(url) ==
    CASE Family(url) = "instagram" -> InstagramOutcomes(url)
      [] Family(url) = "youtube" -> extract_text_from_youtube(url)
      [] Family(url) = "tiktok" -> extract_text_from_tiktok(url)
      [] OTHER -> GenericOutcomes(url)

----------------------------------------------------------------------------
(* Extraction router *)

SimpleExtractionResult(content, title, success, error) ==
    [content |-> content, title |-> title, success |-> success, error |-> error]

ExtractionFailure(error) == SimpleExtractionResult(EmptyText, EmptyText, FALSE, Some(error))

InstagramHint == <<"Instagram extraction failed with authentication error. This tool tried:">>

TikTokHint == <<" (TikTok is blocking this request. Content may be geo-restricted or blocked from your IP)">>

\* the catch-all handler's message
enhanced_error(url, error_msg) ==
    IF is_instagram_url(url)
       /\ (Contains(error_msg, "403") \/ Contains(error_msg, "Forbidden")
           \/ Contains(error_msg, "metadata failed") \/ Contains(error_msg, "401"))
    THEN error_msg \o InstagramHint
    ELSE IF is_tiktok_url(url)
            /\ (ContainsLower(error_msg, "blocked") \/ ContainsLower(error_msg, "ip address"))
    THEN error_msg \o TikTokHint
    ELSE error_msg

\* _extract_content without the final `except Exception` clause
extract_content_NoCatchAll(url, ext) ==
    CASE ext.kind = "ok" -> Some(SimpleExtractionResult(ext.content, ext.title, TRUE, None))
      [] ext.kind = "ImportError" -> Some(ExtractionFailure(<<"Missing dependency: ">> \o ext.msg))
      [] ext.kind = "ValueError" -> Some(ExtractionFailure(<<"Invalid URL format: ">> \o ext.msg))
      [] ext.kind = "Timeout" ->
            Some(ExtractionFailure(<<"Request timed out while fetching ">> \o url))
      [] ext.kind = "HTTPError" ->
            IF ext.status = "" THEN None
            ELSE Some(ExtractionFailure(<<"HTTP ", ext.status, " error while fetching ">> \o url))
      [] ext.kind \in {"ConnectionError", "RequestException"} ->
            Some(ExtractionFailure(<<"Network error: ">> \o ext.msg))
      [] OTHER -> None

\* _extract_content(url), ext being what the chosen extractor returned or raised;
\* the handlers are tried in the order of the except clauses.  The value is
\* Some(outcome), or None when an exception leaves the router: the HTTPError
\* handler reads e.response.status_code, which fails on an error without response
extract_content(url, ext) ==
    CASE ext.kind = "ok" -> Some(SimpleExtractionResult(ext.content, ext.title, TRUE, None))
      [] ext.kind = "ImportError" -> Some(ExtractionFailure(<<"Missing dependency: ">> \o ext.msg))
      [] ext.kind = "ValueError" -> Some(ExtractionFailure(<<"Invalid URL format: ">> \o ext.msg))
      [] ext.kind = "Timeout" ->
            Some(ExtractionFailure(<<"Request timed out while fetching ">> \o url))
      [] ext.kind = "HTTPError" ->
            IF ext.status = "" THEN None
            ELSE Some(ExtractionFailure(<<"HTTP ", ext.status, " error while fetching ">> \o url))
      [] ext.kind \in {"ConnectionError", "RequestException"} ->
            Some(ExtractionFailure(<<"Network error: ">> \o ext.msg))
      [] OTHER ->
            Some(ExtractionFailure(<<"Failed to extract content: ">> \o enhanced_error(url, ext.msg)))

----------------------------------------------------------------------------
(* Judgment oracle contract *)

ValidateAndFormatOutput(is_valid_recipe, recipe_data, partial_recipe_data, recipe_name, has_ingredients, has_instructions, follow_up_url, follow_up_confidence, reason, confidence) ==
    [is_valid_recipe |-> is_valid_recipe, recipe_data |-> recipe_data,
     partial_recipe_data |-> partial_recipe_data, recipe_name |-> recipe_name,
     has_ingredients |-> has_ingredients, has_instructions |-> has_instructions,
     follow_up_url |-> follow_up_url, follow_up_confidence |-> follow_up_confidence,
     reason |-> reason, confidence |-> confidence]

\* the schema instances the oracle may answer with at a given depth; the free
\* texts and the overall confidence name the depth they were produced at
Judgments(depth) ==
    {ValidateAndFormatOutput(v, rd, prd, Some(<<"name at depth", ToString(depth)>>), hi, hs, fu, fc,
                             <<"judged at depth", ToString(depth)>>, 90 - depth) :
        v \in BOOLEAN, rd \in {None, Some(FullRecipe)}, prd \in {None, Some(PartialRecipe)},
        hi \in BOOLEAN, hs \in BOOLEAN, fu \in FollowUpUrls, fc \in FollowUpConfidences}

\* what structured_model.invoke (or get_model before it) does: raise, return a
\* schema instance, return a dict (j is None when the dict violates the
\* schema), or return a value that is neither (None)
OracleOutcomes(depth) ==
    {[kind |-> "raise", j |-> None, msg |-> m] : m \in Msgs}
    \cup {[kind |-> k, j |-> Some(j), msg |-> EmptyText] :
            k \in {"instance", "dict"}, j \in Judgments(depth)}
    \cup {[kind |-> "dict", j |-> None, msg |-> <<"1 validation error for ValidateAndFormatOutput">>],
          [kind |-> "other", j |-> None, msg |-> EmptyText]}

\* the except branch of _validate_and_format_combined
CannedVerdict(msg) ==
    ValidateAndFormatOutput(FALSE, None, None, None, FALSE, FALSE, None, 0,
                            <<"Validation/formatting failed: ">> \o msg, 0)

\* _validate_and_format_combined building the instance from a dict outside the
\* try block: a dict violating the schema is not turned into the canned verdict
validate_and_format_combined_DictUncaught(o) ==
    CASE o.kind = "raise" -> Some(CannedVerdict(o.msg))
      [] o.kind = "dict" -> o.j
      [] o.kind = "instance" -> o.j
      [] OTHER -> None

\* the value _validate_and_format_combined returns for an oracle outcome:
\* Some(instance), or None when the oracle returned a non-dict non-instance
validate_and_format_combined(o) ==
    CASE o.kind = "raise" -> Some(CannedVerdict(o.msg))
      [] o.kind = "dict" -> IF IsNone(o.j) THEN Some(CannedVerdict(o.msg)) ELSE o.j
      [] o.kind = "instance" -> o.j
      [] OTHER -> None

----------------------------------------------------------------------------
(* Result assembler *)

UnifiedRecipeResult(success, recipe_json, recipe_name, extraction_url, is_valid_recipe, has_ingredients, has_instructions, follow_up_url, extraction_depth, error, confidence, reason, extracted_content, partial_recipe_data) ==
    [success |-> success, recipe_json |-> recipe_json, recipe_name |-> recipe_name,
     extraction_url |-> extraction_url, is_valid_recipe |-> is_valid_recipe,
     has_ingredients |-> has_ingredients, has_instructions |-> has_instructions,
     follow_up_url |-> follow_up_url, extraction_depth |-> extraction_depth,
     error |-> error, confidence |-> confidence, reason |-> reason,
     extracted_content |-> extracted_content, partial_recipe_data |-> partial_recipe_data]

\* RecipeJSON(**recipe_data_dict): the oracle's fields, the source URL, and the
\* defaults id (uuid4, the n-th fresh one) and created_at (utcnow + "Z")
RecipeJSON(recipe_data, source_url, n) ==
    [id |-> <<"uuid4-", ToString(n)>>, title |-> recipe_data.title,
     ingredients |-> recipe_data.ingredients, steps |-> recipe_data.steps,
     created_at |-> <<"utcnow", "Z">>, source_url |-> Some(source_url)]

\* FetchFailureResult that does not pass the router's error on
FetchFailureResult_NoError(url, current_depth, er) ==
    UnifiedRecipeResult(FALSE, None, None, url, FALSE, FALSE, FALSE, None, current_depth,
                        None, 0, <<"Content extraction failed">>, None, None)

\* FetchFailureResult that reports the initial depth
FetchFailureResult_DepthZero(url, current_depth, er) ==
    UnifiedRecipeResult(FALSE, None, None, url, FALSE, FALSE, FALSE, None, 0,
                        er.error, 0, <<"Content extraction failed">>, None, None)

\* the result returned when the router's outcome is unsuccessful
FetchFailureResult(url, current_depth, er) ==
    UnifiedRecipeResult(FALSE, None, None, url, FALSE, FALSE, FALSE, None, current_depth,
                        er.error, 0, <<"Content extraction failed">>, None, None)

\* STEP 3 condition: a valid verdict with recipe data
IsValidWithData(j) == j.is_valid_recipe /\ ~IsNone(j.recipe_data)

\* SuccessResult that does not attach the source URL to the record
SuccessResult_NoSourceUrl(url, current_depth, j, n) ==
    UnifiedRecipeResult(TRUE,
                        Some([RecipeJSON(Val(j.recipe_data), url, n) EXCEPT !.source_url = None]),
                        j.recipe_name, url, TRUE, j.has_ingredients, j.has_instructions, None,
                        current_depth, None, j.confidence, j.reason, None, None)

SuccessResult(url, current_depth, j, n) ==
    UnifiedRecipeResult(TRUE, Some(RecipeJSON(Val(j.recipe_data), url, n)), j.recipe_name, url,
                        TRUE, j.has_ingredients, j.has_instructions, None, current_depth,
                        None, j.confidence, j.reason, None, None)

\* has_follow_up with a strict comparison against the threshold
has_follow_up_Strict(j) ==
    ~IsNone(j.follow_up_url) /\ j.follow_up_confidence > FOLLOW_UP_CONFIDENCE_THRESHOLD

\* STEP 4
has_follow_up(j) ==
    ~IsNone(j.follow_up_url) /\ j.follow_up_confidence >= FOLLOW_UP_CONFIDENCE_THRESHOLD

\* ShouldFollow without the depth check
ShouldFollow_NoDepthCheck(j, current_depth, max_depth) == has_follow_up(j)

ShouldFollow(j, current_depth, max_depth) == has_follow_up(j) /\ current_depth < max_depth

\* truth value of an Optional[str]: neither None nor ""
Truthy(o) == ~IsNone(o) /\ Val(o) # EmptyText

DepthLimitText == " and depth limit reached"

ConfidenceTooLowText == " and follow-up URL confidence too low"

\* error_msg without the low-confidence branch
error_msg_NoLowConfidence(j, current_depth, max_depth) ==
    IF current_depth >= max_depth /\ Truthy(j.follow_up_url)
    THEN <<"No valid recipe found", DepthLimitText, " (max: ", ToString(max_depth), ")">>
    ELSE <<"No valid recipe found">>

\* error_msg comparing the depth strictly against the limit
error_msg_DepthOffByOne(j, current_depth, max_depth) ==
    IF current_depth > max_depth /\ Truthy(j.follow_up_url)
    THEN <<"No valid recipe found", DepthLimitText, " (max: ", ToString(max_depth), ")">>
    ELSE IF Truthy(j.follow_up_url) /\ j.follow_up_confidence < FOLLOW_UP_CONFIDENCE_THRESHOLD
    THEN <<"No valid recipe found", ConfidenceTooLowText,
           " (", ToString(j.follow_up_confidence), " < ", ToString(FOLLOW_UP_CONFIDENCE_THRESHOLD), ")">>
    ELSE <<"No valid recipe found">>

\* STEP 5 error text
error_msg(j, current_depth, max_depth) ==
    IF current_depth >= max_depth /\ Truthy(j.follow_up_url)
    THEN <<"No valid recipe found", DepthLimitText, " (max: ", ToString(max_depth), ")">>
    ELSE IF Truthy(j.follow_up_url) /\ j.follow_up_confidence < FOLLOW_UP_CONFIDENCE_THRESHOLD
    THEN <<"No valid recipe found", ConfidenceTooLowText,
           " (", ToString(j.follow_up_confidence), " < ", ToString(FOLLOW_UP_CONFIDENCE_THRESHOLD), ")">>
    ELSE <<"No valid recipe found">>

\* FailureResult that stores the fetched text whatever the judgment found
FailureResult_AlwaysContent(url, current_depth, max_depth, j, er) ==
    LET partial == j.has_ingredients \/ j.has_instructions IN
    UnifiedRecipeResult(FALSE, None, j.recipe_name, url, FALSE, j.has_ingredients,
                        j.has_instructions, j.follow_up_url, current_depth,
                        Some(error_msg(j, current_depth, max_depth)), j.confidence, j.reason,
                        Some(er.content),
                        IF partial THEN j.partial_recipe_data ELSE None)

\* FailureResult that drops the judgment's follow_up_url
FailureResult_NoFollowUp(url, current_depth, max_depth, j, er) ==
    LET partial == j.has_ingredients \/ j.has_instructions IN
    UnifiedRecipeResult(FALSE, None, j.recipe_name, url, FALSE, j.has_ingredients,
                        j.has_instructions, None, current_depth,
                        Some(error_msg(j, current_depth, max_depth)), j.confidence, j.reason,
                        IF partial THEN Some(er.content) ELSE None,
                        IF partial THEN j.partial_recipe_data ELSE None)

\* FailureResult that passes the oracle's is_valid_recipe on
FailureResult_EchoesVerdict(url, current_depth, max_depth, j, er) ==
    LET partial == j.has_ingredients \/ j.has_instructions IN
    UnifiedRecipeResult(FALSE, None, j.recipe_name, url, j.is_valid_recipe, j.has_ingredients,
                        j.has_instructions, j.follow_up_url, current_depth,
                        Some(error_msg(j, current_depth, max_depth)), j.confidence, j.reason,
                        IF partial THEN Some(er.content) ELSE None,
                        IF partial THEN j.partial_recipe_data ELSE None)

\* FailureResult that, after a hop, reports the name and the confidence the
\* initial attempt found
FailureResult_OuterJudgment(url, current_depth, max_depth, j, er) ==
    LET partial == j.has_ingredients \/ j.has_instructions IN
    UnifiedRecipeResult(FALSE, None,
                        IF current_depth > 0 THEN Some(<<"name at depth", "0">>)
                        ELSE j.recipe_name,
                        url, FALSE, j.has_ingredients,
                        j.has_instructions, j.follow_up_url, current_depth,
                        Some(error_msg(j, current_depth, max_depth)),
                        IF current_depth > 0 THEN 90 ELSE j.confidence, j.reason,
                        IF partial THEN Some(er.content) ELSE None,
                        IF partial THEN j.partial_recipe_data ELSE None)

FailureResult(url, current_depth, max_depth, j, er) ==
    LET partial == j.has_ingredients \/ j.has_instructions IN
    UnifiedRecipeResult(FALSE, None, j.recipe_name, url, FALSE, j.has_ingredients,
                        j.has_instructions, j.follow_up_url, current_depth,
                        Some(error_msg(j, current_depth, max_depth)), j.confidence, j.reason,
                        IF partial THEN Some(er.content) ELSE None,
                        IF partial THEN j.partial_recipe_data ELSE None)

----------------------------------------------------------------------------
(* Inputs of the session cache and of token validation *)

\* concurrent top-level invocations inside get_authenticated_instagram_loader
Threads == {"t1", "t2"}

\* the clock advances in steps of half the cache window
TickSeconds == 1800

\* cache_ttl = 3600  # 1 hour cache
cache_ttl == 3600

\* a JWT as validate_supabase_token sees it: whether it decodes, whether its
\* signature is valid for the project's secret, and the claims of its payload
Token(well_formed, signature_valid, exp, sub, role) ==
    [well_formed |-> well_formed, signature_valid |-> signature_valid, exp |-> exp, sub |-> sub, role |-> role]

NoToken == Token(FALSE, FALSE, "absent", None, None)

\* the coroutines that call _init_agent: the lifespan at startup and the
\* handlers of concurrent requests
Tasks == {"lifespan", "request1", "request2"}

----------------------------------------------------------------------------
(* Recursive controller: one top-level call at a time.                     *)
(* pc is the position inside _extract_recursive: "fetch" before STEP 1,    *)
(* "judge" before STEP 2, "decide" before STEP 3; "done" after a return,   *)
(* "raised" after an exception left the call.                              *)

VARIABLES pc, url, current_depth, extraction_result, validate_format_result, result,
          original_url, followed, events, uuids, calls

\* One extractor call, step by step (see "Retry wrapper and extractors"
\* below): w_pc is the position inside with_retry's wrapper, e_pc the
\* position inside the extractor and router that called it.
VARIABLES w_pc, max_attempts, backoff_factor, attempt, last_exception, outcomes, sleeps,
          gets, w_result, e_pc, family, started, errors, extracted

\* Instagram session cache and the threads inside
\* get_authenticated_instagram_loader (see "Instagram session cache" below)
VARIABLES instagram_loader_cache, now, g_pc, g_loader, g_authenticated, g_path, g_ret,
          created_at, login_at, auth_of, g_calls

gvars == <<instagram_loader_cache, now, g_pc, g_loader, g_authenticated, g_path, g_ret,
           created_at, login_at, auth_of, g_calls>>

\* one validate_supabase_token call (see "Token validation" below)
VARIABLES a_pc, token, supabase_url, auth_outcome

avars == <<a_pc, token, supabase_url, auth_outcome>>

\* globals of the server and the coroutines inside _init_agent (see "Agent
\* initialisation" below)
VARIABLES agent_graph, agent_runner, checkpointer, checkpointer_cm, agent_init_lock,
          database_url_global, phase, connections, endpoints, i_pc, force_reinit, init_calls

svars == <<agent_graph, agent_runner, checkpointer, checkpointer_cm, agent_init_lock,
           database_url_global, phase, connections, endpoints, i_pc, force_reinit, init_calls>>

xvars == <<w_pc, max_attempts, backoff_factor, attempt, last_exception, outcomes, sleeps,
           gets, w_result, e_pc, family, started, errors, extracted>>

cvars == <<pc, url, current_depth, extraction_result, validate_format_result, result,
           original_url, followed, events, uuids, calls>>

vars == <<cvars, xvars, gvars, avars, svars>>

\* history of the collaborator calls of the current top-level call: which
\* call ("fetch" is the router, "oracle" the judgment step), at which depth, on
\* which URL, how it ended and, for a failed oracle call, the failure message
Event(op, depth, u, outcome, msg) ==
    [op |-> op, depth |-> depth, url |-> u, outcome |-> outcome, msg |-> msg]

\* how an oracle call ended: it failed (raised, or a dict violating the
\* schema), answered with a judgment, or returned something else
OracleEnd(o) ==
    IF o.kind = "raise" \/ (o.kind = "dict" /\ IsNone(o.j)) THEN "failed"
    ELSE IF o.kind = "other" THEN "other"
    ELSE "answered"

Init ==
    /\ pc = "idle"
    /\ url = EmptyText
    /\ current_depth = 0
    /\ extraction_result = None
    /\ validate_format_result = None
    /\ result = None
    /\ original_url = EmptyText
    /\ followed = None
    /\ events = <<>>
    /\ uuids = 0
    /\ calls = 0
    /\ w_pc = "idle"
    /\ max_attempts = 0
    /\ backoff_factor = 0
    /\ attempt = 0
    /\ last_exception = None
    /\ outcomes = <<>>
    /\ sleeps = <<>>
    /\ gets = 0
    /\ w_result = None
    /\ e_pc = "idle"
    /\ family = ""
    /\ started = <<>>
    /\ errors = <<>>
    /\ extracted = None
    /\ instagram_loader_cache = [loader |-> 0, authenticated |-> FALSE, last_attempt |-> None]
    /\ now = TickSeconds
    /\ g_pc = [t \in Threads |-> "idle"]
    /\ g_loader = [t \in Threads |-> 0]
    /\ g_authenticated = [t \in Threads |-> FALSE]
    /\ g_path = [t \in Threads |-> ""]
    /\ g_ret = [t \in Threads |-> None]
    /\ created_at = <<>>
    /\ login_at = <<>>
    /\ auth_of = <<>>
    /\ g_calls = 0
    /\ a_pc = "idle"
    /\ token = NoToken
    /\ supabase_url = None
    /\ auth_outcome = None
    /\ agent_graph = None
    /\ agent_runner = None
    /\ checkpointer = None
    /\ checkpointer_cm = None
    /\ agent_init_lock = None
    /\ database_url_global = None
    /\ phase = "boot"
    /\ connections = <<>>
    /\ endpoints = 0
    /\ i_pc = [t \in Tasks |-> "idle"]
    /\ force_reinit = [t \in Tasks |-> FALSE]
    /\ init_calls = 0

\* extract_and_process_recipe(u): enters _extract_recursive(u, 0, MAX_DEPTH_LIMIT)
Call(u) ==
    /\ pc \in {"idle", "done", "raised"}
    /\ calls < MaxCalls
    /\ calls' = calls + 1
    /\ pc' = "fetch"
    /\ url' = u
    /\ original_url' = u
    /\ current_depth' = 0
    /\ extraction_result' = None
    /\ validate_format_result' = None
    /\ result' = None
    /\ followed' = None
    /\ events' = <<>>
    /\ UNCHANGED <<uuids, xvars, gvars, avars, svars>>

\* STEP 1 without the early return: a failed fetch goes on to the judgment
Fetch_NoEarlyReturn ==
    /\ pc = "fetch"
    /\ \E ext \in ExtractorOutcomes(url) :
         LET routed == extract_content(url, ext) IN
         /\ extraction_result' = routed
         /\ pc' = IF IsNone(routed) THEN "raised" ELSE "judge"
         /\ events' = Append(events,
                Event("fetch", current_depth, url,
                      IF IsNone(routed) THEN "raised"
                      ELSE IF Val(routed).success THEN "ok" ELSE "failed", EmptyText))
    /\ UNCHANGED <<url, current_depth, validate_format_result, result, original_url, followed,
                   uuids, calls, xvars, gvars, avars, svars>>

\* STEP 1: the router call, and the early return when it failed
Fetch ==
    /\ pc = "fetch"
    /\ \E ext \in ExtractorOutcomes(url) :
         LET routed == extract_content(url, ext) IN
         /\ extraction_result' = routed
         /\ IF IsNone(routed)
            THEN /\ pc' = "raised"
                 /\ UNCHANGED result
            ELSE IF ~Val(routed).success
            THEN /\ result' = Some(FetchFailureResult(url, current_depth, Val(routed)))
                 /\ pc' = "done"
            ELSE /\ pc' = "judge"
                 /\ UNCHANGED result
         /\ events' = Append(events,
                Event("fetch", current_depth, url,
                      IF IsNone(routed) THEN "raised"
                      ELSE IF Val(routed).success THEN "ok" ELSE "failed", EmptyText))
    /\ UNCHANGED <<url, current_depth, validate_format_result, original_url, followed, uuids, calls, xvars, gvars, avars, svars>>

\* STEP 2: the single LLM call
Judge ==
    /\ pc = "judge"
    /\ \E o \in OracleOutcomes(current_depth) :
         /\ validate_format_result' = validate_and_format_combined(o)
         /\ events' = Append(events, Event("oracle", current_depth, url, OracleEnd(o), o.msg))
    /\ pc' = "decide"
    /\ UNCHANGED <<url, current_depth, extraction_result, result, original_url, followed, uuids, calls, xvars, gvars, avars, svars>>

\* the attribute access of STEP 3 on a value that is not a schema instance
JudgmentAttributeError ==
    /\ pc = "decide"
    /\ IsNone(validate_format_result)
    /\ pc' = "raised"
    /\ UNCHANGED <<url, current_depth, extraction_result, validate_format_result, result,
                   original_url, followed, events, uuids, calls, xvars, gvars, avars, svars>>

\* STEP 3: valid recipe
ReturnSuccess ==
    /\ pc = "decide"
    /\ ~IsNone(validate_format_result)
    /\ IsValidWithData(Val(validate_format_result))
    /\ result' = Some(SuccessResult(url, current_depth, Val(validate_format_result), uuids + 1))
    /\ uuids' = uuids + 1
    /\ pc' = "done"
    /\ UNCHANGED <<url, current_depth, extraction_result, validate_format_result,
                   original_url, followed, events, calls, xvars, gvars, avars, svars>>

\* STEP 4: the recursive call on the follow-up URL
FollowUp ==
    /\ pc = "decide"
    /\ ~IsNone(validate_format_result)
    /\ ~IsValidWithData(Val(validate_format_result))
    /\ ShouldFollow(Val(validate_format_result), current_depth, MAX_DEPTH_LIMIT)
    /\ url' = Val(Val(validate_format_result).follow_up_url)
    /\ followed' = Val(validate_format_result).follow_up_url
    /\ current_depth' = current_depth + 1
    /\ pc' = "fetch"
    /\ extraction_result' = None
    /\ validate_format_result' = None
    /\ UNCHANGED <<result, original_url, events, uuids, calls, xvars, gvars, avars, svars>>

\* STEP 5: failure result
ReturnFailure ==
    /\ pc = "decide"
    /\ ~IsNone(validate_format_result)
    /\ ~IsValidWithData(Val(validate_format_result))
    /\ ~ShouldFollow(Val(validate_format_result), current_depth, MAX_DEPTH_LIMIT)
    /\ result' = Some(FailureResult(url, current_depth, MAX_DEPTH_LIMIT,
                                    Val(validate_format_result), Val(extraction_result)))
    /\ pc' = "done"
    /\ UNCHANGED <<url, current_depth, extraction_result, validate_format_result,
                   original_url, followed, events, uuids, calls, xvars, gvars, avars, svars>>

Next ==
    \/ \E u \in InputUrls : Call(u)
    \/ Fetch
    \/ Judge
    \/ JudgmentAttributeError
    \/ ReturnSuccess
    \/ FollowUp
    \/ ReturnFailure

Spec == Init /\ [][Next]_vars

TypeOK ==
    /\ pc \in {"idle", "fetch", "judge", "decide", "done", "raised"}
    /\ current_depth \in 0..(MAX_DEPTH_LIMIT + 1)
    /\ calls \in 0..MaxCalls

----------------------------------------------------------------------------
(* Retry wrapper and extractors: one extractor call, step by step.         *)
(* w_pc is the position inside with_retry's wrapper: "loop" at the head of *)
(* the for loop, "sleep" before time.sleep, "returned" / "raised" once the *)
(* wrapper has ended. outcomes lists how each invocation of the wrapped    *)
(* function ended, sleeps the wait of each time.sleep, gets counts the     *)
(* requests.get calls. e_pc is the position of the caller: "plain" for a   *)
(* bare operation under with_retry, "simple" for one under                  *)
(* with_simple_retry, "primary" / "fallback" inside                        *)
(* extract_text_from_instagram, "generic" / "video" inside the other       *)
(* branches of _extract_content, "extracted" when the extractor has ended, *)
(* "routed" when _extract_content has returned. Durations are counted in   *)
(* half seconds.                                                           *)

MaxAttemptsBound == 3

\* max_attempts of a wrapped operation; range(1, max_attempts + 1) is empty
\* for 0 and for a negative value, which leave the loop without a turn
AttemptCounts == (-1)..MaxAttemptsBound

\* backoff_factor 0.5 s (with_simple_retry), 1.0 s (default, fetch_html), 2.0 s
BackoffFactors == {1, 2, 4}

\* @with_retry(max_attempts=3, backoff_factor=1.0) on fetch_html
FETCH_MAX_ATTEMPTS ==
    3

FETCH_BACKOFF_FACTOR == 2

\* with_simple_retry: backoff_factor=0.5
SIMPLE_BACKOFF_FACTOR == 1

\* only timeouts are retried
RETRIABLE_EXCEPTIONS_TimeoutOnly ==
    {"Timeout"}

RETRIABLE_EXCEPTIONS_WithHTTPError ==
    {"Timeout", "ConnectionError", "HTTPError"}

RETRIABLE_EXCEPTIONS ==
    {"Timeout", "ConnectionError"}

\* the docstring's formula backoff_factor * (2 ^ attempt)
wait_time_Docstring(factor, n) ==
    factor * (2 ^ n)

\* every wait lasting backoff_factor
wait_time_Constant(factor, n) ==
    factor

\* wait_time = backoff_factor * (2 ** (attempt - 1))
wait_time(factor, n) ==
    factor * (2 ^ (n - 1))

\* giving up one attempt early
IsFinalAttempt_OneEarly(n, max) ==
    n >= max - 1

\* if attempt == max_attempts
IsFinalAttempt(n, max) ==
    n = max

\* how one invocation of a bare wrapped operation can end
WrappedOutcomes ==
    {FetchReturned([text |-> <<"2 cups flour", "1. mix">>, title |-> None])}
    \cup {FetchRaised("Timeout", m, "") : m \in Msgs}
    \cup {FetchRaised("ConnectionError", m, "") : m \in Msgs}
    \cup {FetchRaised("HTTPError", <<"404", " Client Error">>, "404"),
          FetchRaised("ValueError", <<"bad argument">>, "")}

\* a call of an operation decorated with with_retry(max_attempts=n, backoff_factor=f)
CallWrapped(n, f) ==
    /\ UNCHANGED <<gvars, avars, svars>>
    /\ pc = "idle"
    /\ e_pc = "idle"
    /\ w_pc = "idle"
    /\ e_pc' = "plain"
    /\ w_pc' = "loop"
    /\ max_attempts' = n
    /\ backoff_factor' = f
    /\ attempt' = 1
    /\ UNCHANGED <<pc, url, current_depth, extraction_result, validate_format_result, result,
                   original_url, followed, events, uuids, calls>>
    /\ UNCHANGED <<last_exception, outcomes, sleeps, gets, w_result, family, started, errors,
                   extracted>>

\* a call of an operation decorated with with_simple_retry(max_attempts=n),
\* which is with_retry(n, 0.5, RETRIABLE_EXCEPTIONS)
CallSimpleRetry(n) ==
    /\ UNCHANGED <<gvars, avars, svars>>
    /\ pc = "idle"
    /\ e_pc = "idle"
    /\ w_pc = "idle"
    /\ e_pc' = "simple"
    /\ w_pc' = "loop"
    /\ max_attempts' = n
    /\ backoff_factor' = SIMPLE_BACKOFF_FACTOR
    /\ attempt' = 1
    /\ UNCHANGED <<pc, url, current_depth, extraction_result, validate_format_result, result,
                   original_url, followed, events, uuids, calls>>
    /\ UNCHANGED <<last_exception, outcomes, sleeps, gets, w_result, family, started, errors,
                   extracted>>

\* _extract_recursive(u, d) enters STEP 1: _extract_content picks the
\* extractor; the Instagram and the generic extractor begin with fetch_html
EnterAttempt(u, d) ==
    /\ UNCHANGED <<gvars, avars, svars>>
    /\ pc = "idle"
    /\ e_pc = "idle"
    /\ w_pc = "idle"
    /\ pc' = "fetch"
    /\ url' = u
    /\ current_depth' = d
    /\ family' = Family(u)
    /\ IF Family(u) \in {"instagram", "generic"}
       THEN /\ w_pc' = "loop"
            /\ max_attempts' = FETCH_MAX_ATTEMPTS
            /\ backoff_factor' = FETCH_BACKOFF_FACTOR
            /\ attempt' = 1
            /\ e_pc' = (IF Family(u) = "instagram" THEN "primary" ELSE "generic")
            /\ started' = (IF Family(u) = "instagram" THEN <<"HTML meta tags">> ELSE <<>>)
       ELSE /\ e_pc' = "video"
            /\ UNCHANGED <<w_pc, max_attempts, backoff_factor, attempt, started>>
    /\ UNCHANGED <<extraction_result, validate_format_result, result, original_url, followed,
                   events, uuids, calls>>
    /\ UNCHANGED <<last_exception, outcomes, sleeps, gets, w_result, errors, extracted>>

\* one turn of the loop: the wrapped function is invoked; a retriable
\* exception is re-raised on the final attempt and slept on otherwise, any
\* other exception is raised at once
Invoke ==
    /\ UNCHANGED <<gvars, avars, svars>>
    /\ w_pc = "loop"
    /\ attempt <= max_attempts
    /\ \E out \in (IF e_pc \in {"plain", "simple"} THEN WrappedOutcomes ELSE fetch_html(url)) :
         /\ outcomes' = Append(outcomes, out)
         /\ gets' = gets + (IF e_pc \notin {"plain", "simple"} /\ out.kind # "ValueError"
                            THEN 1 ELSE 0)
         /\ IF out.kind = "ok"
            THEN /\ w_pc' = "returned"
                 /\ w_result' = Some(out)
                 /\ UNCHANGED last_exception
            ELSE IF out.kind \in RETRIABLE_EXCEPTIONS
            THEN /\ last_exception' = Some(out)
                 /\ IF IsFinalAttempt(attempt, max_attempts)
                    THEN /\ w_pc' = "raised"
                         /\ w_result' = Some(out)
                    ELSE /\ w_pc' = "sleep"
                         /\ UNCHANGED w_result
            ELSE /\ w_pc' = "raised"
                 /\ w_result' = Some(out)
                 /\ UNCHANGED last_exception
    /\ UNCHANGED <<pc, url, current_depth, extraction_result, validate_format_result, result,
                   original_url, followed, events, uuids, calls>>
    /\ UNCHANGED <<max_attempts, backoff_factor, attempt, sleeps, e_pc, family, started,
                   errors, extracted>>

\* time.sleep(wait_time), then the next turn of the loop
Sleep ==
    /\ UNCHANGED <<gvars, avars, svars>>
    /\ w_pc = "sleep"
    /\ sleeps' = Append(sleeps, wait_time(backoff_factor, attempt))
    /\ attempt' = attempt + 1
    /\ w_pc' = "loop"
    /\ UNCHANGED <<pc, url, current_depth, extraction_result, validate_format_result, result,
                   original_url, followed, events, uuids, calls>>
    /\ UNCHANGED <<max_attempts, backoff_factor, last_exception, outcomes, gets, w_result,
                   e_pc, family, started, errors, extracted>>

\* the statements after the loop: raise last_exception if there is one,
\* otherwise the wrapper returns None
FallThrough ==
    /\ UNCHANGED <<gvars, avars, svars>>
    /\ w_pc = "loop"
    /\ attempt > max_attempts
    /\ w_pc' = (IF IsNone(last_exception) THEN "returned" ELSE "raised")
    /\ w_result' = last_exception
    /\ UNCHANGED <<pc, url, current_depth, extraction_result, validate_format_result, result,
                   original_url, followed, events, uuids, calls>>
    /\ UNCHANGED <<max_attempts, backoff_factor, attempt, last_exception, outcomes, sleeps,
                   gets, e_pc, family, started, errors, extracted>>

WrapperEnded == w_pc \in {"returned", "raised"} /\ ~IsNone(w_result)

\* extract_text_from_instagram, primary method: its value is returned, its
\* exception is appended to errors (kept here as the exception caught)
PrimaryEnds ==
    /\ UNCHANGED <<gvars, avars, svars>>
    /\ e_pc = "primary"
    /\ WrapperEnded
    /\ IF MetaTags(Val(w_result)).kind = "ok"
       THEN /\ extracted' = Some(MetaTags(Val(w_result)))
            /\ e_pc' = "extracted"
            /\ UNCHANGED errors
       ELSE /\ errors' = Append(errors, MetaTags(Val(w_result)))
            /\ e_pc' = "fallback"
            /\ UNCHANGED extracted
    /\ UNCHANGED <<pc, url, current_depth, extraction_result, validate_format_result, result,
                   original_url, followed, events, uuids, calls>>
    /\ UNCHANGED <<w_pc, max_attempts, backoff_factor, attempt, last_exception, outcomes,
                   sleeps, gets, w_result, family, started>>

\* extract_text_from_instagram, fallback method and the combined error
Fallback ==
    /\ UNCHANGED <<gvars, avars, svars>>
    /\ e_pc = "fallback"
    /\ started' = Append(started, "instaloader")
    /\ \E fb \in extract_instagram_with_instaloader(url) :
         /\ errors' = (IF fb.kind = "ok" THEN errors ELSE Append(errors, fb))
         /\ extracted' = Some(extract_text_from_instagram(errors[1], fb))
    /\ e_pc' = "extracted"
    /\ UNCHANGED <<pc, url, current_depth, extraction_result, validate_format_result, result,
                   original_url, followed, events, uuids, calls>>
    /\ UNCHANGED <<w_pc, max_attempts, backoff_factor, attempt, last_exception, outcomes,
                   sleeps, gets, w_result, family>>

\* generic branch of _extract_content after fetch_html has ended
GenericFetched ==
    /\ UNCHANGED <<gvars, avars, svars>>
    /\ e_pc = "generic"
    /\ WrapperEnded
    /\ \E ext \in GenericEnds(Val(w_result)) : extracted' = Some(ext)
    /\ e_pc' = "extracted"
    /\ UNCHANGED <<pc, url, current_depth, extraction_result, validate_format_result, result,
                   original_url, followed, events, uuids, calls>>
    /\ UNCHANGED <<w_pc, max_attempts, backoff_factor, attempt, last_exception, outcomes,
                   sleeps, gets, w_result, family, started, errors>>

\* YouTube and TikTok branches of _extract_content
VideoExtracted ==
    /\ UNCHANGED <<gvars, avars, svars>>
    /\ e_pc = "video"
    /\ \E ext \in ExtractorOutcomes(url) : extracted' = Some(ext)
    /\ e_pc' = "extracted"
    /\ UNCHANGED <<pc, url, current_depth, extraction_result, validate_format_result, result,
                   original_url, followed, events, uuids, calls>>
    /\ UNCHANGED <<w_pc, max_attempts, backoff_factor, attempt, last_exception, outcomes,
                   sleeps, gets, w_result, family, started, errors>>

\* _extract_content returns (or raises) and STEP 1 of _extract_recursive
\* returns early on a failure
RouterReturns ==
    /\ UNCHANGED <<gvars, avars, svars>>
    /\ e_pc = "extracted"
    /\ pc = "fetch"
    /\ e_pc' = "routed"
    /\ extraction_result' = extract_content(url, Val(extracted))
    /\ IF IsNone(extract_content(url, Val(extracted)))
       THEN /\ pc' = "raised"
            /\ UNCHANGED result
       ELSE IF ~Val(extract_content(url, Val(extracted))).success
       THEN /\ result' = Some(FetchFailureResult(url, current_depth,
                                                 Val(extract_content(url, Val(extracted)))))
            /\ pc' = "done"
       ELSE /\ pc' = "judge"
            /\ UNCHANGED result
    /\ events' = Append(events,
           Event("fetch", current_depth, url,
                 IF IsNone(extract_content(url, Val(extracted))) THEN "raised"
                 ELSE IF Val(extract_content(url, Val(extracted))).success THEN "ok"
                 ELSE "failed", EmptyText))
    /\ UNCHANGED <<url, current_depth, validate_format_result, original_url, followed, uuids,
                   calls>>
    /\ UNCHANGED <<w_pc, max_attempts, backoff_factor, attempt, last_exception, outcomes,
                   sleeps, gets, w_result, family, started, errors, extracted>>

ExtractNext ==
    \/ \E n \in AttemptCounts, f \in BackoffFactors : CallWrapped(n, f)
    \/ \E n \in AttemptCounts : CallSimpleRetry(n)
    \/ \E u \in InputUrls, d \in 0..MAX_DEPTH_LIMIT : EnterAttempt(u, d)
    \/ Invoke
    \/ Sleep
    \/ FallThrough
    \/ PrimaryEnds
    \/ Fallback
    \/ GenericFetched
    \/ VideoExtracted
    \/ RouterReturns

ExtractSpec == Init /\ [][ExtractNext]_vars

\* every outcome of the stepwise extractor is one the controller's STEP 1 draws
ExtractedIsExtractorOutcome ==
    ~IsNone(extracted) => Val(extracted) \in ExtractorOutcomes(url)

----------------------------------------------------------------------------
(* Instagram session cache: get_authenticated_instagram_loader, run by      *)
(* concurrent invocations, one read or write of the module-level dict per  *)
(* step. Loaders are numbered in the order of their creation (0 is None);  *)
(* created_at and login_at list the clock at each Instaloader() and each   *)
(* loader.login call, auth_of the outcome of each loader's login. g_path   *)
(* tells whether the current call of a thread took the cached branch       *)
(* ("hit") or created a loader ("refresh").                                *)

MaxLoaderCalls == 3

MaxTicks == 2

\* no credentials in the environment, login succeeded, login raised
LoginOutcomes == {"skipped", "ok", "failed"}

Pair(loader, authenticated) == [loader |-> loader, authenticated |-> authenticated]

\* a thread enters get_authenticated_instagram_loader
GetLoader(t) ==
    /\ UNCHANGED <<cvars, xvars, avars, svars>>
    /\ g_pc[t] = "idle"
    /\ g_calls < MaxLoaderCalls
    /\ g_calls' = g_calls + 1
    /\ g_pc' = [g_pc EXCEPT ![t] = "check_loader"]
    /\ g_loader' = [g_loader EXCEPT ![t] = 0]
    /\ g_authenticated' = [g_authenticated EXCEPT ![t] = FALSE]
    /\ g_path' = [g_path EXCEPT ![t] = ""]
    /\ g_ret' = [g_ret EXCEPT ![t] = None]
    /\ UNCHANGED <<instagram_loader_cache, now, created_at, login_at, auth_of>>

\* if _instagram_loader_cache["loader"] is not None
CheckLoader(t) ==
    /\ UNCHANGED <<cvars, xvars, avars, svars>>
    /\ g_pc[t] = "check_loader"
    /\ g_pc' = [g_pc EXCEPT ![t] =
                  IF instagram_loader_cache.loader # 0 THEN "check_last" ELSE "create"]
    /\ UNCHANGED <<instagram_loader_cache, now, g_loader, g_authenticated, g_path, g_ret,
                   created_at, login_at, auth_of, g_calls>>

\* last_attempt and (time.time() - last_attempt) < cache_ttl
Fresh(last_attempt, clock) ==
    /\ ~IsNone(last_attempt)
    /\ Val(last_attempt) # 0
    /\ clock - Val(last_attempt) < cache_ttl

CheckLast(t) ==
    /\ UNCHANGED <<cvars, xvars, avars, svars>>
    /\ g_pc[t] = "check_last"
    /\ IF Fresh(instagram_loader_cache.last_attempt, now)
       THEN /\ g_pc' = [g_pc EXCEPT ![t] = "read_loader"]
            /\ g_path' = [g_path EXCEPT ![t] = "hit"]
       ELSE /\ g_pc' = [g_pc EXCEPT ![t] = "create"]
            /\ UNCHANGED g_path
    /\ UNCHANGED <<instagram_loader_cache, now, g_loader, g_authenticated, g_ret,
                   created_at, login_at, auth_of, g_calls>>

\* return _instagram_loader_cache["loader"], ... : first element
ReadLoader(t) ==
    /\ UNCHANGED <<cvars, xvars, avars, svars>>
    /\ g_pc[t] = "read_loader"
    /\ g_loader' = [g_loader EXCEPT ![t] = instagram_loader_cache.loader]
    /\ g_pc' = [g_pc EXCEPT ![t] = "read_authenticated"]
    /\ UNCHANGED <<instagram_loader_cache, now, g_authenticated, g_path, g_ret,
                   created_at, login_at, auth_of, g_calls>>

\* return ..., _instagram_loader_cache["authenticated"] : second element
ReadAuthenticated(t) ==
    /\ UNCHANGED <<cvars, xvars, avars, svars>>
    /\ g_pc[t] = "read_authenticated"
    /\ g_ret' = [g_ret EXCEPT ![t] =
                   Some(Pair(g_loader[t], instagram_loader_cache.authenticated))]
    /\ g_pc' = [g_pc EXCEPT ![t] = "idle"]
    /\ UNCHANGED <<instagram_loader_cache, now, g_loader, g_authenticated, g_path,
                   created_at, login_at, auth_of, g_calls>>

\* loader = instaloader.Instaloader()
CreateLoader(t) ==
    /\ UNCHANGED <<cvars, xvars, avars, svars>>
    /\ g_pc[t] = "create"
    /\ created_at' = Append(created_at, now)
    /\ auth_of' = Append(auth_of, FALSE)
    /\ g_loader' = [g_loader EXCEPT ![t] = Len(created_at) + 1]
    /\ g_authenticated' = [g_authenticated EXCEPT ![t] = FALSE]
    /\ g_path' = [g_path EXCEPT ![t] = "refresh"]
    /\ g_pc' = [g_pc EXCEPT ![t] = "login"]
    /\ UNCHANGED <<instagram_loader_cache, now, g_ret, login_at, g_calls>>

\* if username and password: loader.login(...), every exception caught
Login(t) ==
    /\ UNCHANGED <<cvars, xvars, avars, svars>>
    /\ g_pc[t] = "login"
    /\ \E o \in LoginOutcomes :
         /\ login_at' = (IF o = "skipped" THEN login_at ELSE Append(login_at, now))
         /\ g_authenticated' = [g_authenticated EXCEPT ![t] = (o = "ok")]
         /\ auth_of' = [auth_of EXCEPT ![g_loader[t]] = (o = "ok")]
    /\ g_pc' = [g_pc EXCEPT ![t] = "write_loader"]
    /\ UNCHANGED <<instagram_loader_cache, now, g_loader, g_path, g_ret, created_at, g_calls>>

\* _instagram_loader_cache["loader"] = loader
WriteLoader(t) ==
    /\ UNCHANGED <<cvars, xvars, avars, svars>>
    /\ g_pc[t] = "write_loader"
    /\ instagram_loader_cache' = [instagram_loader_cache EXCEPT !.loader = g_loader[t]]
    /\ g_pc' = [g_pc EXCEPT ![t] = "write_authenticated"]
    /\ UNCHANGED <<now, g_loader, g_authenticated, g_path, g_ret, created_at, login_at,
                   auth_of, g_calls>>

\* _instagram_loader_cache["authenticated"] = authenticated
WriteAuthenticated(t) ==
    /\ UNCHANGED <<cvars, xvars, avars, svars>>
    /\ g_pc[t] = "write_authenticated"
    /\ instagram_loader_cache' =
         [instagram_loader_cache EXCEPT !.authenticated = g_authenticated[t]]
    /\ g_pc' = [g_pc EXCEPT ![t] = "write_last_attempt"]
    /\ UNCHANGED <<now, g_loader, g_authenticated, g_path, g_ret, created_at, login_at,
                   auth_of, g_calls>>

\* _instagram_loader_cache["last_attempt"] = time.time(); return loader, authenticated
WriteLastAttempt(t) ==
    /\ UNCHANGED <<cvars, xvars, avars, svars>>
    /\ g_pc[t] = "write_last_attempt"
    /\ instagram_loader_cache' = [instagram_loader_cache EXCEPT !.last_attempt = Some(now)]
    /\ g_ret' = [g_ret EXCEPT ![t] = Some(Pair(g_loader[t], g_authenticated[t]))]
    /\ g_pc' = [g_pc EXCEPT ![t] = "idle"]
    /\ UNCHANGED <<now, g_loader, g_authenticated, g_path, created_at, login_at, auth_of,
                   g_calls>>

\* time passes
Tick ==
    /\ UNCHANGED <<cvars, xvars, avars, svars>>
    /\ now < TickSeconds * (1 + MaxTicks)
    /\ now' = now + TickSeconds
    /\ UNCHANGED <<instagram_loader_cache, g_pc, g_loader, g_authenticated, g_path, g_ret,
                   created_at, login_at, auth_of, g_calls>>

CacheNext ==
    \/ \E t \in Threads : GetLoader(t)
    \/ \E t \in Threads : CheckLoader(t)
    \/ \E t \in Threads : CheckLast(t)
    \/ \E t \in Threads : ReadLoader(t)
    \/ \E t \in Threads : ReadAuthenticated(t)
    \/ \E t \in Threads : CreateLoader(t)
    \/ \E t \in Threads : Login(t)
    \/ \E t \in Threads : WriteLoader(t)
    \/ \E t \in Threads : WriteAuthenticated(t)
    \/ \E t \in Threads : WriteLastAttempt(t)
    \/ Tick

CacheSpec == Init /\ [][CacheNext]_vars

----------------------------------------------------------------------------
(* Token validation: one call of validate_supabase_token. a_pc is "idle",  *)
(* "received" once a token has arrived, "done" after the call; the outcome *)
(* is the UserInfo returned or the HTTPException raised.                   *)

\* the exp claim: missing, in the past, in the future, or not a timestamp
ExpClaims == {"absent", "past", "future", "malformed"}

Tokens ==
    {Token(wf, sig, exp, sub, role) :
        wf \in BOOLEAN, sig \in BOOLEAN, exp \in ExpClaims,
        sub \in {None, Some(""), Some("user-1")},
        role \in {None, Some("service_role")}}

\* os.getenv("SUPABASE_URL")
SupabaseUrls == {None, Some("https://project.supabase.co")}

UserInfo(user_id, role) ==
    [kind |-> "UserInfo", status_code |-> 200, detail |-> "", user_id |-> user_id, role |-> role]

HTTPException(status_code, detail) ==
    [kind |-> "HTTPException", status_code |-> status_code, detail |-> detail, user_id |-> "", role |-> ""]

\* validate_supabase_token: the payload is decoded with verify_signature
\* switched off, then exp and sub are examined
validate_supabase_token(tok, env_url) ==
    IF IsNone(env_url)
    THEN HTTPException(500, "Server configuration error: SUPABASE_URL not set")
    ELSE IF ~tok.well_formed THEN HTTPException(401, "Invalid token format: ")
    ELSE IF tok.exp = "malformed" THEN HTTPException(401, "Token validation failed: ")
    ELSE IF tok.exp = "past" THEN HTTPException(401, "Token has expired")
    ELSE IF IsNone(tok.sub) \/ tok.sub = Some("")
    THEN HTTPException(401, "Invalid token: missing user ID (sub claim)")
    ELSE UserInfo(Val(tok.sub), IF IsNone(tok.role) THEN "authenticated" ELSE Val(tok.role))

\* a request carrying a token arrives
ReceiveToken(tok, env_url) ==
    /\ a_pc = "idle"
    /\ a_pc' = "received"
    /\ token' = tok
    /\ supabase_url' = env_url
    /\ UNCHANGED auth_outcome
    /\ UNCHANGED <<cvars, xvars, gvars, svars>>

Validate ==
    /\ a_pc = "received"
    /\ auth_outcome' = Some(validate_supabase_token(token, supabase_url))
    /\ a_pc' = "done"
    /\ UNCHANGED <<token, supabase_url>>
    /\ UNCHANGED <<cvars, xvars, gvars, svars>>

AuthNext ==
    \/ \E tok \in Tokens, env_url \in SupabaseUrls : ReceiveToken(tok, env_url)
    \/ Validate

AuthSpec == Init /\ [][AuthNext]_vars

----------------------------------------------------------------------------
(* Agent initialisation: _init_agent of server.py, called by the lifespan   *)
(* at startup and by request handlers afterwards, one step per await.      *)
(* phase is "boot" before the lifespan runs, "starting" during its         *)
(* _init_agent call, "serving" once startup has completed and "failed"     *)
(* when it raised. Context managers returned by from_conn_string are       *)
(* numbered in the order of their creation; connections lists the state of *)
(* each: "created" (never entered), "open", "closed". A graph is named by  *)
(* the checkpointer it was compiled with. i_pc is the position of a        *)
(* coroutine: "waiting" at async with agent_init_lock, "check" at line     *)
(* 107, "connect" at line 118, "setup" at line 123, "done" / "raised"      *)
(* after the call. endpoints counts the add_langgraph_fastapi_endpoint     *)
(* calls.                                                                  *)

MaxInitCalls == 4

\* os.getenv("DATABASE_URL")
DatabaseUrls == {None, Some(<<"postgresql://", "db.example", "/postgres">>)}

\* _build_database_url: the keepalive and sslmode defaults are added to the query
build_database_url(raw_url) == raw_url \o <<"?keepalives=1", "&sslmode=require">>

\* positions inside the body guarded by agent_init_lock
InBody == {"check", "connect", "setup"}

\* LangGraphAGUIAgent(name, description, graph, config)
LangGraphAGUIAgent(n, graph) == [id |-> n, graph |-> graph, config |-> graph]

\* lifespan up to its _init_agent(app, force_reinit=True) call
Lifespan(env_url) ==
    /\ UNCHANGED <<cvars, xvars, gvars, avars>>
    /\ phase = "boot"
    /\ IF IsNone(env_url)
       THEN /\ phase' = "failed"
            /\ UNCHANGED <<database_url_global, i_pc, force_reinit, init_calls>>
       ELSE /\ phase' = "starting"
            /\ database_url_global' = Some(build_database_url(Val(env_url)))
            /\ i_pc' = [i_pc EXCEPT !["lifespan"] = "waiting"]
            /\ force_reinit' = [force_reinit EXCEPT !["lifespan"] = TRUE]
            /\ init_calls' = init_calls + 1
    /\ UNCHANGED <<agent_graph, agent_runner, checkpointer, checkpointer_cm, agent_init_lock,
                   connections, endpoints>>

\* the lifespan after its _init_agent call: it yields, or startup fails
StartupEnds ==
    /\ UNCHANGED <<cvars, xvars, gvars, avars>>
    /\ phase = "starting"
    /\ i_pc["lifespan"] \in {"done", "raised"}
    /\ phase' = (IF i_pc["lifespan"] = "done" THEN "serving" ELSE "failed")
    /\ i_pc' = [i_pc EXCEPT !["lifespan"] = "off"]
    /\ UNCHANGED <<agent_graph, agent_runner, checkpointer, checkpointer_cm, agent_init_lock,
                   database_url_global, connections, endpoints, force_reinit, init_calls>>

\* a request handler calls _init_agent: handle_db_operational_error with
\* force_reinit=True (any exception of the call is swallowed), or a call with
\* the default force_reinit=False
CallInitAgent(t, force) ==
    /\ UNCHANGED <<cvars, xvars, gvars, avars>>
    /\ t # "lifespan"
    /\ phase = "serving"
    /\ i_pc[t] \in {"idle", "done", "raised"}
    /\ init_calls < MaxInitCalls
    /\ init_calls' = init_calls + 1
    /\ i_pc' = [i_pc EXCEPT ![t] = "waiting"]
    /\ force_reinit' = [force_reinit EXCEPT ![t] = force]
    /\ UNCHANGED <<agent_graph, agent_runner, checkpointer, checkpointer_cm, agent_init_lock,
                   database_url_global, phase, connections, endpoints>>

\* entering the body without taking the lock
AcquireLock_NoLock(t) ==
    /\ UNCHANGED <<cvars, xvars, gvars, avars>>
    /\ i_pc[t] = "waiting"
    /\ agent_init_lock' = Some(t)
    /\ i_pc' = [i_pc EXCEPT ![t] = "check"]
    /\ UNCHANGED <<agent_graph, agent_runner, checkpointer, checkpointer_cm,
                   database_url_global, phase, connections, endpoints, force_reinit,
                   init_calls>>

\* async with agent_init_lock
AcquireLock(t) ==
    /\ UNCHANGED <<cvars, xvars, gvars, avars>>
    /\ i_pc[t] = "waiting"
    /\ IsNone(agent_init_lock)
    /\ agent_init_lock' = Some(t)
    /\ i_pc' = [i_pc EXCEPT ![t] = "check"]
    /\ UNCHANGED <<agent_graph, agent_runner, checkpointer, checkpointer_cm,
                   database_url_global, phase, connections, endpoints, force_reinit,
                   init_calls>>

\* if agent_graph is not None and not force_reinit
AlreadyInitialised(t) == ~IsNone(agent_graph) /\ ~force_reinit[t]

\* line 108: return, which releases the lock
ReturnEarly(t) ==
    /\ UNCHANGED <<cvars, xvars, gvars, avars>>
    /\ i_pc[t] = "check"
    /\ AlreadyInitialised(t)
    /\ i_pc' = [i_pc EXCEPT ![t] = "done"]
    /\ agent_init_lock' = None
    /\ UNCHANGED <<agent_graph, agent_runner, checkpointer, checkpointer_cm,
                   database_url_global, phase, connections, endpoints, force_reinit,
                   init_calls>>

\* lines 110-116: the old context manager is exited, whatever __aexit__
\* raises is swallowed (the connection may then be closed or not), and both
\* globals are reset; a context manager that was never entered has nothing
\* to close
CloseOld(t) ==
    /\ UNCHANGED <<cvars, xvars, gvars, avars>>
    /\ i_pc[t] = "check"
    /\ ~AlreadyInitialised(t)
    /\ ~IsNone(checkpointer_cm)
    /\ \E left \in {"closed", "open"} :
         connections' = [connections EXCEPT ![Val(checkpointer_cm)] =
                            IF @ = "open" THEN left ELSE @]
    /\ checkpointer_cm' = None
    /\ checkpointer' = None
    /\ i_pc' = [i_pc EXCEPT ![t] = "connect"]
    /\ UNCHANGED <<agent_graph, agent_runner, agent_init_lock, database_url_global, phase,
                   endpoints, force_reinit, init_calls>>

\* lines 118-122: the configuration check, from_conn_string and __aenter__,
\* which opens the connection or raises
Connect(t) ==
    /\ UNCHANGED <<cvars, xvars, gvars, avars>>
    /\ \/ i_pc[t] = "connect"
       \/ i_pc[t] = "check" /\ ~AlreadyInitialised(t) /\ IsNone(checkpointer_cm)
    /\ IF IsNone(database_url_global)
       THEN /\ i_pc' = [i_pc EXCEPT ![t] = "raised"]
            /\ agent_init_lock' = None
            /\ UNCHANGED <<checkpointer, checkpointer_cm, connections>>
       ELSE \E entered \in BOOLEAN :
            /\ checkpointer_cm' = Some(Len(connections) + 1)
            /\ connections' = Append(connections, IF entered THEN "open" ELSE "created")
            /\ checkpointer' = (IF entered THEN Some(Len(connections) + 1) ELSE checkpointer)
            /\ i_pc' = [i_pc EXCEPT ![t] = IF entered THEN "setup" ELSE "raised"]
            /\ agent_init_lock' = (IF entered THEN agent_init_lock ELSE None)
    /\ UNCHANGED <<agent_graph, agent_runner, database_url_global, phase, endpoints,
                   force_reinit, init_calls>>

\* lines 123-143: checkpointer.setup(), which may raise, then the graph is
\* compiled with the checkpointer and the runner is created and registered, or
\* the registered runner gets the new graph and config
Setup(t) ==
    /\ UNCHANGED <<cvars, xvars, gvars, avars>>
    /\ i_pc[t] = "setup"
    /\ \E ok \in BOOLEAN :
         IF ok
         THEN /\ agent_graph' = checkpointer
              /\ IF IsNone(agent_runner)
                 THEN /\ agent_runner' = Some(LangGraphAGUIAgent(endpoints + 1, Val(checkpointer)))
                      /\ endpoints' = endpoints + 1
                 ELSE /\ agent_runner' = Some([Val(agent_runner) EXCEPT
                                                 !.graph = Val(checkpointer),
                                                 !.config = Val(checkpointer)])
                      /\ UNCHANGED endpoints
              /\ i_pc' = [i_pc EXCEPT ![t] = "done"]
         ELSE /\ i_pc' = [i_pc EXCEPT ![t] = "raised"]
              /\ UNCHANGED <<agent_graph, agent_runner, endpoints>>
    /\ agent_init_lock' = None
    /\ UNCHANGED <<checkpointer, checkpointer_cm, database_url_global, phase, connections,
                   force_reinit, init_calls>>

ServerNext ==
    \/ \E env_url \in DatabaseUrls : Lifespan(env_url)
    \/ StartupEnds
    \/ \E t \in Tasks, force \in BOOLEAN : CallInitAgent(t, force)
    \/ \E t \in Tasks : AcquireLock(t)
    \/ \E t \in Tasks : ReturnEarly(t)
    \/ \E t \in Tasks : CloseOld(t)
    \/ \E t \in Tasks : Connect(t)
    \/ \E t \in Tasks : Setup(t)

ServerSpec == Init /\ [][ServerNext]_vars

----------------------------------------------------------------------------
(* Properties *)

LastEvent == events[Len(events)]

HasResult == pc = "done" /\ ~IsNone(result)

\* C1: the depth of every returned result is 0 or 1, and _extract_recursive
\* is never running at a depth greater than 1
C1_DepthInvariant ==
    /\ current_depth \in {0, 1}
    /\ \A i \in DOMAIN events : events[i].depth \in {0, 1}
    /\ ~IsNone(result) => Val(result).extraction_depth \in {0, 1}

\* a result returned by the depth-1 attempt
C1_Witness == HasResult /\ Val(result).extraction_depth = 1 /\ Len(events) = 4

\* the step of the controller from STEP 3 into a second attempt on the
\* oracle's follow_up_url
HopStep ==
    /\ pc = "decide"
    /\ pc' = "fetch"
    /\ current_depth' = current_depth + 1
    /\ ~IsNone(validate_format_result)
    /\ Some(url') = Val(validate_format_result).follow_up_url

\* C2 as stated: a hop occurs iff is_valid_recipe=false, follow_up_url is not
\* null, follow_up_confidence >= 0.6 and current_depth < 1
C2_AsStated ==
    [][pc = "decide" =>
        (HopStep <=> /\ ~IsNone(validate_format_result)
                     /\ ~Val(validate_format_result).is_valid_recipe
                     /\ ~IsNone(Val(validate_format_result).follow_up_url)
                     /\ Val(validate_format_result).follow_up_confidence >= 60
                     /\ current_depth < 1)]_vars

\* C2 amended: a hop occurs iff the judgment is not (valid with recipe data),
\* follow_up_url is not null, follow_up_confidence >= 0.6 and current_depth < 1
C2_FollowUpGating ==
    [][pc = "decide" =>
        (HopStep <=> /\ ~IsNone(validate_format_result)
                     /\ ~(Val(validate_format_result).is_valid_recipe
                          /\ ~IsNone(Val(validate_format_result).recipe_data))
                     /\ ~IsNone(Val(validate_format_result).follow_up_url)
                     /\ Val(validate_format_result).follow_up_confidence >= 60
                     /\ current_depth < 1)]_vars

\* a hop has been taken: the second attempt is about to fetch the follow-up URL
C2_Witness ==
    /\ pc = "fetch"
    /\ current_depth = 1
    /\ Len(events) = 2
    /\ followed = Some(url)

\* C3: a returned result is either a success with a record and no error, or
\* a failure without record and with a non-empty error, never both or neither
C3_ExactlyOne ==
    ~IsNone(result) =>
        LET r == Val(result)
            ok == r.success /\ ~IsNone(r.recipe_json) /\ IsNone(r.error)
            ko == ~r.success /\ IsNone(r.recipe_json) /\ ~IsNone(r.error)
                  /\ Val(r.error) # EmptyText
        IN (ok \/ ko) /\ ~(ok /\ ko)

\* a fetch failure whose exception had an empty message: the error is the
\* router's prefix alone
C3_Witness ==
    /\ HasResult
    /\ ~Val(result).success
    /\ Val(result).error = Some(<<"Network error: ">>)

\* a step of the running call; one is enabled in every state where pc is
\* "fetch", "judge" or "decide", so a call stops only where pc is none of these
CallStopped == calls > 0 /\ pc \notin {"fetch", "judge", "decide"}

\* C4 (as stated): a top-level call stops only in DONE, with one result, and
\* after at most two attempts
C4_StopsDoneWithResult ==
    /\ CallStopped => (pc = "done" /\ ~IsNone(result))
    /\ Cardinality({i \in DOMAIN events : events[i].op = "fetch"}) <= 2

\* C5: a success result carries the URL of the attempt the oracle judged
\* valid, as extraction_url and as the record's source_url: the original URL
\* at depth 0, the followed follow-up URL at depth 1; the record has a
\* non-empty id and a created_at timestamp
C5_SuccessProvenance ==
    (HasResult /\ Val(result).success) =>
        LET r == Val(result)
            rj == Val(r.recipe_json)
        IN /\ LastEvent.op = "oracle"
           /\ LastEvent.outcome = "answered"
           /\ Val(validate_format_result).is_valid_recipe
           /\ r.extraction_url = LastEvent.url
           /\ rj.source_url = Some(LastEvent.url)
           /\ r.extraction_depth = LastEvent.depth
           /\ r.extraction_depth = 0 => (r.extraction_url = original_url /\ IsNone(followed))
           /\ r.extraction_depth = 1 => Some(r.extraction_url) = followed
           /\ rj.id # EmptyText
           /\ Len(rj.created_at) = 2 /\ rj.created_at[2] = "Z"

\* a success at depth 1 on a follow-up URL that differs from the original one
C5_Witness ==
    /\ HasResult
    /\ Val(result).success
    /\ Val(result).extraction_depth = 1
    /\ Val(result).extraction_url # original_url

\* C6 (as stated): no exception leaves extract_and_process_recipe
C6_NoExceptionEscapes == pc # "raised"

\* C7: the router returns an outcome for every extractor outcome: no fetch
\* ends with an exception, and a failed outcome has a non-empty error and an
\* empty content
C7_RouterNeverRaises ==
    /\ \A i \in DOMAIN events : events[i].op = "fetch" => events[i].outcome \in {"ok", "failed"}
    /\ (Len(events) > 0 /\ LastEvent.op = "fetch") => ~IsNone(extraction_result)
    /\ ~IsNone(extraction_result) =>
         LET er == Val(extraction_result) IN
         /\ er.success \in BOOLEAN
         /\ er.success = (LastEvent.op = "oracle" \/ LastEvent.outcome = "ok")
         /\ ~er.success => (~IsNone(er.error) /\ Val(er.error) # EmptyText /\ er.content = EmptyText)

\* the catch-all handler has produced a failure outcome
C7_Witness ==
    /\ ~IsNone(extraction_result)
    /\ ~Val(extraction_result).success
    /\ Val(Val(extraction_result).error)[1] = "Failed to extract content: "

\* C8: when the oracle call fails, the judgment step returns the canned
\* verdict with the failure message in its reason, and the controller ends at
\* that level with success=false, without a hop and without an exception
C8_OracleFailureIsCanned ==
    (Len(events) > 0 /\ LastEvent.op = "oracle" /\ LastEvent.outcome = "failed") =>
        /\ pc \in {"decide", "done"}
        /\ current_depth = LastEvent.depth
        /\ ~IsNone(validate_format_result)
        /\ LET j == Val(validate_format_result) IN
           /\ j.is_valid_recipe = FALSE
           /\ IsNone(j.follow_up_url)
           /\ j.follow_up_confidence = 0
           /\ j.confidence = 0
           /\ j.reason = <<"Validation/formatting failed: ">> \o LastEvent.msg
        /\ pc = "done" => /\ ~IsNone(result)
                          /\ ~Val(result).success
                          /\ Val(result).extraction_depth = LastEvent.depth

\* the oracle failed with a message at depth 1 and the call has returned
C8_Witness ==
    /\ HasResult
    /\ LastEvent.op = "oracle"
    /\ LastEvent.outcome = "failed"
    /\ LastEvent.depth = 1
    /\ LastEvent.msg # EmptyText

\* C9: an unsuccessful fetch at depth d ends the call at once with a failure
\* result carrying the router's error, depth d and the attempt's URL, with no
\* oracle call for that attempt
C9_FetchFailureEndsCall ==
    (Len(events) > 0 /\ LastEvent.op = "fetch" /\ LastEvent.outcome = "failed") =>
        /\ pc = "done"
        /\ ~IsNone(result)
        /\ IsNone(validate_format_result)
        /\ \A i \in DOMAIN events : events[i].op = "oracle" => events[i].depth < LastEvent.depth
        /\ LET r == Val(result) IN
           /\ ~r.success
           /\ r.error = Val(extraction_result).error
           /\ r.extraction_depth = LastEvent.depth
           /\ r.extraction_url = LastEvent.url
           /\ IsNone(r.follow_up_url)
           /\ r.confidence = 0

\* the fetch of the follow-up URL failed
C9_Witness ==
    /\ HasResult
    /\ LastEvent.op = "fetch"
    /\ LastEvent.outcome = "failed"
    /\ LastEvent.depth = 1

\* the final attempt was judged not valid with a follow-up candidate of
\* confidence below 0.6
LowConfidenceCandidate ==
    /\ HasResult
    /\ LastEvent.op = "oracle"
    /\ ~IsNone(validate_format_result)
    /\ ~Val(validate_format_result).is_valid_recipe
    /\ ~IsNone(Val(validate_format_result).follow_up_url)
    /\ Val(validate_format_result).follow_up_confidence < 60

\* C10 as stated: at every depth such a judgment gives success=false, an
\* error containing "confidence too low" and the candidate in follow_up_url
C10_AsStated ==
    LowConfidenceCandidate =>
        /\ ~Val(result).success
        /\ Val(result).extraction_depth = LastEvent.depth
        /\ Contains(Val(Val(result).error), ConfidenceTooLowText)
        /\ Val(result).follow_up_url = Val(validate_format_result).follow_up_url

\* C10 amended: this holds at depth 0 for a non-empty candidate; at depth 1
\* the error names the depth limit instead, and an empty candidate gets
\* neither text; the candidate is in follow_up_url in all cases
C10_LowConfidenceFollowUp ==
    LowConfidenceCandidate =>
        LET r == Val(result)
            j == Val(validate_format_result)
        IN /\ ~r.success
           /\ r.extraction_depth = LastEvent.depth
           /\ r.follow_up_url = j.follow_up_url
           /\ (r.extraction_depth = 0 /\ Val(j.follow_up_url) # EmptyText)
                => Contains(Val(r.error), ConfidenceTooLowText)
           /\ (r.extraction_depth = 1 /\ Val(j.follow_up_url) # EmptyText)
                => (Contains(Val(r.error), DepthLimitText)
                    /\ ~Contains(Val(r.error), ConfidenceTooLowText))
           /\ Val(j.follow_up_url) = EmptyText => r.error = Some(<<"No valid recipe found">>)

\* a depth-0 failure reporting a low-confidence candidate
C10_Witness ==
    /\ LowConfidenceCandidate
    /\ Val(result).extraction_depth = 0
    /\ Contains(Val(Val(result).error), ConfidenceTooLowText)
    /\ Val(result).follow_up_url = Some(U_blog)

\* the error of the returned result mentions the depth limit
MentionsDepthLimit ==
    ~IsNone(Val(result).error) /\ Contains(Val(Val(result).error), DepthLimitText)

\* the result comes from a depth-1 attempt that was fetched and judged
JudgedAtDepthOne ==
    LastEvent.op = "oracle" /\ LastEvent.depth = 1 /\ ~IsNone(validate_format_result)

\* C11 as stated: the error mentions the depth limit iff the depth-1 attempt
\* was judged is_valid_recipe=false while the oracle proposed a follow-up URL
C11_AsStated ==
    HasResult =>
        /\ MentionsDepthLimit <=>
             (/\ JudgedAtDepthOne
              /\ ~Val(validate_format_result).is_valid_recipe
              /\ Truthy(Val(validate_format_result).follow_up_url))
        /\ MentionsDepthLimit => (~Val(result).success /\ Val(result).extraction_depth = 1)

\* C11 amended: the error mentions the depth limit iff the depth-1 attempt
\* was judged other than is_valid_recipe=true with recipe_data present while
\* the oracle proposed a follow-up URL; then success=false, extraction_depth=1
C11_DepthLimitReached ==
    HasResult =>
        /\ MentionsDepthLimit <=>
             (/\ JudgedAtDepthOne
              /\ ~IsValidWithData(Val(validate_format_result))
              /\ Truthy(Val(validate_format_result).follow_up_url))
        /\ MentionsDepthLimit => (~Val(result).success /\ Val(result).extraction_depth = 1)

\* a depth-1 failure whose judgment proposed a further URL
C11_Witness ==
    /\ HasResult
    /\ MentionsDepthLimit
    /\ Val(result).extraction_depth = 1
    /\ Val(result).follow_up_url = Some(U_yt)

\* C12: in a failure result after a judgment, extracted_content is set iff
\* has_ingredients or has_instructions, and is then the text of that attempt;
\* partial_recipe_data is set iff moreover the oracle supplied it; both are
\* null in success results and in fetch-failure results
C12_PartialEvidence ==
    HasResult =>
        LET r == Val(result) IN
        IF r.success \/ LastEvent.op = "fetch"
        THEN IsNone(r.extracted_content) /\ IsNone(r.partial_recipe_data)
        ELSE LET j == Val(validate_format_result)
                 evidence == j.has_ingredients \/ j.has_instructions
             IN /\ ~IsNone(r.extracted_content) <=> evidence
                /\ evidence => r.extracted_content = Some(Val(extraction_result).content)
                /\ ~IsNone(r.partial_recipe_data)
                      <=> (evidence /\ ~IsNone(j.partial_recipe_data))
                /\ ~IsNone(r.partial_recipe_data) => r.partial_recipe_data = j.partial_recipe_data

\* ingredients without instructions, no follow-up URL, partial data supplied
C12_Witness ==
    /\ HasResult
    /\ ~Val(result).success
    /\ Val(result).has_ingredients
    /\ ~Val(result).has_instructions
    /\ IsNone(Val(result).follow_up_url)
    /\ Val(result).extracted_content = Some(<<"2 cups flour", "1. mix">>)
    /\ Val(result).partial_recipe_data = Some(PartialRecipe)

\* C19: the collaborator calls of one top-level call are, in this order, the
\* router at depth 0, the oracle at depth 0, the router at depth 1 on the
\* followed URL, the oracle at depth 1; each is made at most once, an oracle
\* call follows a successful fetch of the same attempt, and a call that has
\* stopped has judged every attempt it fetched
C19_SequentialCalls ==
    /\ Len(events) <= 4
    /\ \A i \in DOMAIN events :
         IF i % 2 = 1
         THEN /\ events[i].op = "fetch"
              /\ events[i].depth = (i - 1) \div 2
              /\ events[i].url = (IF i = 1 THEN original_url ELSE Val(followed))
              /\ i > 1 => (events[i - 1].op = "oracle" /\ events[i - 1].outcome = "answered")
         ELSE /\ events[i].op = "oracle"
              /\ events[i].depth = events[i - 1].depth
              /\ events[i].url = events[i - 1].url
              /\ events[i - 1].op = "fetch"
              /\ events[i - 1].outcome = "ok"
    /\ (CallStopped /\ Len(events) > 0 /\ LastEvent.op = "fetch") => LastEvent.outcome # "ok"
    /\ pc \in {"decide", "done", "raised"} => Len(events) > 0
    /\ pc = "judge" => (LastEvent.op = "fetch" /\ LastEvent.outcome = "ok")
    /\ pc = "decide" => LastEvent.op = "oracle"

\* two attempts, each fetched and judged once
C19_Witness ==
    /\ HasResult
    /\ Len(events) = 4
    /\ events[3].url # events[1].url

\* the first k invocations of the wrapped function raised a timeout or a
\* connection failure
FirstRetriable(k) == \A i \in 1..k : outcomes[i].kind \in {"Timeout", "ConnectionError"}

C15_NonRetriableImmediate ==
    \A i \in DOMAIN outcomes :
        outcomes[i].kind \in {"HTTPError", "ValueError", "RequestException"}
        => /\ i = Len(outcomes)
           /\ w_pc = "raised"
           /\ w_result = Some(outcomes[i])
           /\ Len(sleeps) = i - 1
           /\ attempt = i

\* an HTTP error status on the second attempt
C15_Witness ==
    /\ w_pc = "raised"
    /\ Len(outcomes) = 2
    /\ outcomes[1].kind = "Timeout"
    /\ outcomes[2].kind = "HTTPError"
    /\ sleeps = <<FETCH_BACKOFF_FACTOR>>

\* the URL of the attempt does not start with "https://"
NotHttps == Len(url) = 0 \/ url[1] # "https://"

\* C16: fetch_html on a URL that does not start with "https://" raises a
\* ValueError on its first attempt without a request, a sleep or a second
\* attempt; on the generic path the attempt then ends with a result that is
\* success=false at the current depth with that message, before any oracle call
C16_InsecureSchemeFailsFast ==
    (family \in {"generic", "instagram"} /\ NotHttps)
    => /\ Len(outcomes) <= 1
       /\ gets = 0
       /\ sleeps = <<>>
       /\ Len(outcomes) = 1
            => /\ outcomes[1] = FetchRaised("ValueError", <<"URL must start with 'https://'">>, "")
               /\ w_pc = "raised"
               /\ w_result = Some(outcomes[1])
       /\ (family = "generic" /\ e_pc = "routed")
            => /\ pc = "done"
               /\ ~IsNone(result)
               /\ ~Val(result).success
               /\ Val(result).extraction_depth = current_depth
               /\ Val(result).extraction_url = url
               /\ Val(result).error
                    = Some(<<"Invalid URL format: ", "URL must start with 'https://'">>)
               /\ \A i \in DOMAIN events : events[i].op # "oracle"

\* the depth-1 attempt on an http:// URL has ended
C16_Witness ==
    /\ url = U_http
    /\ current_depth = 1
    /\ e_pc = "routed"
    /\ Len(outcomes) = 1
    /\ HasResult

\* the tokens of a URL that begin its path
PathTokens == {"/recipes/lasagna", "/p/ABC123/", "/xyz", "/@chef/video/1", "/old", "/share?u="}

\* the host of a URL: what stands between the scheme and the path
Host(u) ==
    LET path == CHOOSE i \in 2..(Len(u) + 1) :
                    /\ i = Len(u) + 1 \/ u[i] \in PathTokens
                    /\ \A j \in 2..(i - 1) : u[j] \notin PathTokens
    IN SubSeq(u, 2, path - 1)

\* C17: the extractor family invoked for a URL is the one its host belongs
\* to (Instagram, then YouTube, then TikTok, otherwise generic), also when a
\* platform domain occurs in the path or the query
C17_RoutesByHost ==
    family # "" => family = Family(Host(url))

\* C20: for an Instagram URL the instaloader fallback is started only after
\* the meta-tag method has failed with its fetch ended (all retries of a
\* retriable failure used up), never when the meta-tag method returns, and
\* when both fail the extractor raises one ValueError that lists the failure
\* of the meta-tag method and then the failure of instaloader
C20_FallbackAfterPrimary ==
    family = "instagram"
    => /\ started \in {<<"HTML meta tags">>, <<"HTML meta tags", "instaloader">>}
       /\ Len(started) = 2
            => /\ WrapperEnded
               /\ Val(w_result).kind # "ok" \/ Val(w_result).html.text = EmptyText
               /\ Val(w_result).kind \in {"Timeout", "ConnectionError"}
                    => (Len(outcomes) = FETCH_MAX_ATTEMPTS /\ Len(sleeps) = FETCH_MAX_ATTEMPTS - 1)
               /\ Len(errors) >= 1
               /\ errors[1].kind = "Exception"
       /\ (WrapperEnded /\ Val(w_result).kind = "ok" /\ Val(w_result).html.text # EmptyText)
            => /\ Len(started) = 1
               /\ errors = <<>>
               /\ e_pc \in {"extracted", "routed"}
                    => extracted = Some(Returned(Val(w_result).html.text, Val(w_result).html.text))
       /\ Len(errors) = 2
            => extracted
                 = Some(Raised("ValueError",
                        <<"Failed to extract Instagram content using all available methods:">>
                        \o <<"HTML meta tags: ">> \o errors[1].msg
                        \o <<"instaloader: ">> \o errors[2].msg
                        \o <<"Possible solutions:">>))

\* the fetch timed out three times, then instaloader failed as well
C20_Witness ==
    /\ family = "instagram"
    /\ Len(outcomes) = 3
    /\ started = <<"HTML meta tags", "instaloader">>
    /\ Len(errors) = 2
    /\ errors[2].kind = "ValueError"
    /\ e_pc = "routed"

\* C21: a call that finds the cache filled less than cache_ttl seconds after
\* its last_attempt creates no loader, attempts no login and returns the
\* cached pair: the loader together with the outcome of that loader's login
C21_CachedWithinTtl ==
    \A t \in Threads :
        g_path[t] = "hit"
        => /\ g_pc[t] \in {"read_loader", "read_authenticated", "idle"}
           /\ ~IsNone(g_ret[t])
                => /\ Val(g_ret[t]).loader \in DOMAIN auth_of
                   /\ Val(g_ret[t]).authenticated = auth_of[Val(g_ret[t]).loader]

\* C22: concurrent callers refresh the cache once: two loaders are never
\* created, and two logins never attempted, less than cache_ttl seconds apart
C22_SingleRefresh ==
    /\ \A i, j \in DOMAIN created_at : i < j => created_at[j] - created_at[i] >= cache_ttl
    /\ \A i, j \in DOMAIN login_at : i < j => login_at[j] - login_at[i] >= cache_ttl

\* C23: the title the generic extractor returns for a fetched page is never
\* empty
C23_GenericTitleNonEmpty ==
    (family = "generic" /\ ~IsNone(extracted) /\ Val(extracted).kind = "ok")
    => /\ Val(extracted).title # EmptyText
       /\ e_pc = "routed" => Val(extraction_result).title # EmptyText

\* C24: no router outcome has success=true with empty content, so the
\* oracle is never called on empty text
C24_NoEmptySuccess ==
    /\ (~IsNone(extraction_result) /\ Val(extraction_result).success)
         => Val(extraction_result).content # EmptyText
    /\ (pc = "decide" /\ LastEvent.op = "oracle")
         => Val(extraction_result).content # EmptyText

\* the router has returned a failure outcome for the stepwise attempt
RoutedFailure ==
    e_pc = "routed" /\ ~IsNone(extraction_result) /\ ~Val(extraction_result).success

\* the classes of the failures behind the extractor's exception: the end of
\* fetch_html where it was called, and the exception of the fallback or of
\* the metadata tool
Causes ==
    (IF family \in {"generic", "instagram"} /\ Val(w_result).kind # "ok"
     THEN {Val(w_result).kind} ELSE {})
    \cup (IF family = "instagram" THEN {errors[i].kind : i \in 2..Len(errors)} ELSE {})
    \cup (IF family \in {"youtube", "tiktok"} THEN {Val(extracted).kind} ELSE {})

\* C25: the type of the router's failure outcome matches the cause, for
\* every extractor family: "Missing dependency" for a missing tool, a
\* timed-out error for a timeout, the status code for an HTTP error status,
\* a network error for another network failure, and "Invalid URL format"
\* only for a URL with a disallowed scheme or one the extractor rejects
C25_TypedFailures ==
    RoutedFailure
    => LET error == Val(Val(extraction_result).error) IN
       /\ "ImportError" \in Causes => error[1] = "Missing dependency: "
       /\ error[1] = "Invalid URL format: "
            => (NotHttps \/ (family = "instagram" /\ "ValueError" \in Causes))
       /\ (family = "generic" /\ Causes = {"Timeout"})
            => error[1] = "Request timed out while fetching "
       /\ (family = "generic" /\ Causes = {"HTTPError"})
            => (error[1] = "HTTP " /\ error[2] = Val(w_result).status)
       /\ (family = "generic" /\ Causes \subseteq {"ConnectionError", "RequestException"}
             /\ Causes # {})
            => error[1] = "Network error: "

\* C26: an Instagram failure whose text mentions 403, Forbidden or 401, and
\* a TikTok failure whose text mentions blocked or ip address, end as the
\* catch-all failure with the platform's hint appended, success=false, and
\* the attempt ends there
C26_RemediationHints ==
    (RoutedFailure /\ Val(extracted).kind # "ok")
    => LET error == Val(Val(extraction_result).error)
           text == Val(extracted).msg
       IN /\ (family = "instagram"
                /\ (Contains(text, "403") \/ Contains(text, "Forbidden") \/ Contains(text, "401")))
               => /\ error[1] = "Failed to extract content: "
                  /\ Contains(error, InstagramHint[1])
                  /\ pc = "done"
          /\ (family = "tiktok"
                /\ (ContainsLower(text, "blocked") \/ ContainsLower(text, "ip address")))
               => /\ error[1] = "Failed to extract content: "
                  /\ Contains(error, TikTokHint[1])
                  /\ pc = "done"

KeepsFailingAtTwoSeconds ==
    /\ e_pc = "plain"
    /\ max_attempts = 3
    /\ backoff_factor = 4
    /\ w_pc = "raised"
    /\ Len(outcomes) = 3
    /\ FirstRetriable(3)

C30_SignatureValidated ==
    (a_pc = "done" /\ ~token.signature_valid)
    => /\ Val(auth_outcome).kind = "HTTPException"
       /\ ~IsNone(supabase_url) => Val(auth_outcome).status_code = 401

\* C31: an operation decorated with with_simple_retry is retried without any
\* backoff: no time.sleep happens between a failed attempt and the next one.
C31_SimpleRetryNoSleep ==
    e_pc = "simple" => sleeps = <<>>

\* C35: the wrapper built by with_retry never returns without the wrapped
\* operation having returned: when the wrapper has returned, for every
\* max_attempts including 0 and negative values, its value is the value
\* returned by the last invocation of the operation.
C35_ReturnsOnlyAfterOperation ==
    (e_pc \in {"plain", "simple"} /\ w_pc = "returned")
    => /\ Len(outcomes) > 0
       /\ outcomes[Len(outcomes)].kind = "ok"
       /\ w_result = Some(outcomes[Len(outcomes)])

\* C32: in every result returned by extract_and_process_recipe
\* is_valid_recipe equals success, also when the oracle's verdict was valid
\* but carried no recipe_data.
C32_ValidEqualsSuccess ==
    HasResult => (Val(result).is_valid_recipe <=> Val(result).success)

\* a failure result built from a verdict that said "valid" without recipe data
C32_Witness ==
    /\ HasResult
    /\ LastEvent.op = "oracle"
    /\ ~IsNone(validate_format_result)
    /\ Val(validate_format_result).is_valid_recipe
    /\ IsNone(Val(validate_format_result).recipe_data)
    /\ ~Val(result).success
    /\ ~Val(result).is_valid_recipe

\* what the attempt at depth 0 obtained from the oracle
OfDepthZero(r) ==
    \/ r.recipe_name = Some(<<"name at depth", "0">>)
    \/ r.reason = <<"judged at depth", "0">>
    \/ r.confidence = 90

\* C33: once a hop is taken the final result is determined by the depth-1
\* attempt alone: nothing the depth-0 attempt obtained appears in it; after a
\* failed depth-1 fetch it carries no name, flags, confidence, content or
\* partial data at all, and after a depth-1 judgment its name, flags, reason,
\* confidence, content and partial data are those of that judgment and of the
\* depth-1 fetch (none when that judgment found nothing).
C33_ResultOfDepthOneAlone ==
    (HasResult /\ ~IsNone(followed))
    => LET r == Val(result) IN
       /\ ~OfDepthZero(r)
       /\ r.extraction_depth = 1
       /\ LastEvent.depth = 1
       /\ IF LastEvent.op = "fetch"
          THEN /\ r.recipe_name = None
               /\ ~r.has_ingredients
               /\ ~r.has_instructions
               /\ r.confidence = 0
               /\ r.reason = <<"Content extraction failed">>
               /\ r.extracted_content = None
               /\ r.partial_recipe_data = None
          ELSE LET j == Val(validate_format_result)
                   found == j.has_ingredients \/ j.has_instructions IN
               /\ \/ j.reason = <<"judged at depth", "1">>
                  \/ j = CannedVerdict(LastEvent.msg)
               /\ r.recipe_name = j.recipe_name
               /\ r.has_ingredients = j.has_ingredients
               /\ r.has_instructions = j.has_instructions
               /\ r.reason = j.reason
               /\ r.confidence = j.confidence
               /\ r.extracted_content \in {None, Some(Val(extraction_result).content)}
               /\ r.partial_recipe_data \in {None, j.partial_recipe_data}
               /\ ~found => (r.extracted_content = None /\ r.partial_recipe_data = None)

\* a hop was taken and the depth-1 judgment found nothing
C33_Witness ==
    /\ HasResult
    /\ ~IsNone(followed)
    /\ LastEvent.op = "oracle"
    /\ LastEvent.outcome = "answered"
    /\ ~Val(validate_format_result).has_ingredients
    /\ ~Val(validate_format_result).has_instructions
    /\ ~Val(result).success
    /\ Val(result).recipe_name = Some(<<"name at depth", "1">>)
    /\ Val(result).extracted_content = None

\* C34: the controller never fetches the same URL twice within one top-level
\* call: no hop is taken when the follow_up_url is the URL just fetched.
C34_NoRefetch ==
    \A i, k \in DOMAIN events :
        (i < k /\ events[i].op = "fetch" /\ events[k].op = "fetch")
        => events[i].url # events[k].url

\* C36: under every interleaving each pair returned by
\* get_authenticated_instagram_loader, from the cache or after a refresh, is
\* consistent: the loader exists and authenticated is the outcome of the
\* login on that very loader, as it must be when the fields a caller read
\* were written by one refresh.
C36_ConsistentPair ==
    \A t \in Threads :
        ~IsNone(g_ret[t])
        => /\ Val(g_ret[t]).loader \in DOMAIN auth_of
           /\ Val(g_ret[t]).authenticated <=> auth_of[Val(g_ret[t]).loader]

\* C37: _init_agent is safe to call multiple times: executions of its body
\* never overlap, the agent endpoint is registered at most once, and every
\* later initialisation only replaces the graph and config of the runner
\* registered first, which then carries the graph compiled last.
C37_InitAgentReentrant ==
    /\ Cardinality({t \in Tasks : i_pc[t] \in InBody}) <= 1
    /\ \A t \in Tasks : i_pc[t] \in InBody => agent_init_lock = Some(t)
    /\ endpoints <= 1
    /\ IF IsNone(agent_runner)
       THEN endpoints = 0 /\ IsNone(agent_graph)
       ELSE /\ endpoints = 1
            /\ Val(agent_runner).id = 1
            /\ Some(Val(agent_runner).graph) = agent_graph
            /\ Some(Val(agent_runner).config) = agent_graph

\* after a completed re-initialisation, one call is inside the body while
\* another waits for the lock
C37_Witness ==
    /\ endpoints = 1
    /\ ~IsNone(agent_runner)
    /\ Val(agent_runner).graph = 2
    /\ \E t \in Tasks : i_pc[t] \in InBody
    /\ \E t \in Tasks : i_pc[t] = "waiting"

\* C38: after any sequence of _init_agent calls, including calls that failed
\* partway, a non-null agent_graph was compiled with the checkpointer that is
\* held in the global checkpointer and is open.
C38_GraphOnOpenCheckpointer ==
    (phase = "serving" /\ (\A t \in Tasks : i_pc[t] \notin InBody) /\ ~IsNone(agent_graph))
    => /\ checkpointer = agent_graph
       /\ connections[Val(agent_graph)] = "open"

====
